---- MODULE Spec2Model ----
(***************************************************************************)
(* A model of the to-do / reminder core of Castor (src/todos.py): the      *)
(* three TinyDB tables (people, tasks, reminders), the entity operations   *)
(* on them, the time utilities built on dateutil / pytz, the scheduler    *)
(* Reminder.update_reminders, and the loop of src/bot.py that calls it and *)
(* delivers what it returns.                                               *)
(*                                                                         *)
(* Encodings.                                                              *)
(*  - A name is a sequence of one-character strings, so that format_name   *)
(*    (strip, lower, replace) is computed and not assumed.                 *)
(*  - A time text is a tuple of integers: <<y, m, d>> is the text          *)
(*    "yyyy-mm-dd", <<y, m, d, h>> is "yyyy-mm-dd hh:00[:00]", <<>> is None *)
(*    or the empty string (both falsy in Python) and Unparsable is a text  *)
(*    dateutil rejects.  Canonical strings are fixed-width and zero-padded, *)
(*    so Python's string "<" on them is the lexicographic order on tuples. *)
(*  - An aware datetime is a number of hours on the Europe/Brussels wall   *)
(*    clock, counted from 2024-01-01 00:00 (daylight saving is left out).  *)
(*  - A content string is a TLA+ string; "" stands for None and "", and    *)
(*    " " for a string of white space only (truthy in Python).             *)
(*  - A TinyDB document is a record; a key the code does not write is not  *)
(*    in the record's domain.                                              *)
(***************************************************************************)
EXTENDS Integers, Sequences, FiniteSets, TLC

VARIABLES
    people,          \* table 'people':    doc_id -> document
    tasks,           \* table 'tasks':     doc_id -> document
    reminders,       \* table 'reminders': doc_id -> document
    nextPerson,      \* next doc_id of table 'people'
    nextTask,        \* next doc_id of table 'tasks'
    nextReminder,    \* next doc_id of table 'reminders'
    tzshift,         \* hours from the process's local zone to Europe/Brussels
    shown,           \* reminders_to_show returned by the latest update_reminders
    sent             \* the <<doc_id, name>> messages of the latest delivery loop

vars == <<people, tasks, reminders, nextPerson, nextTask, nextReminder,
          tzshift, shown, sent>>

-----------------------------------------------------------------------------
(* Bounds of the model *)

MaxPeople == 2
MaxTasks == 1
MaxReminders == 1

-----------------------------------------------------------------------------
(* Inputs *)

Unparsable == <<0>>

RawPersonNames == { <<"A">>, <<"a", " ">>, <<"b">> }
ExternalIds == { "1", "2" }
PrettyNames == { "P" }

TaskContents == { "", "milk" }
BlankTaskContents == { "", " " }
DeadlineTexts == { <<>>, Unparsable, <<2024, 3, 5>> }

TimeTexts == { <<>>, Unparsable, <<2024, 3, 15, 10>> }
NameLists == { <<>>, << <<"A">>, <<>> >>, << <<" ">>, <<"b">> >> }
RecurringTexts == { "", "daily", "Monthly", "hourly" }
ReminderContents == { "", "call" }

TzShifts == { 0, 1 }
Instants == { <<2024, 3, 14, 10>>, <<2024, 3, 17, 10>> }
Fractions == { 0, 1 }

-----------------------------------------------------------------------------
(* Names *)

lower(c) == IF c = "A" THEN "a" ELSE IF c = "B" THEN "b" ELSE c

RECURSIVE lstrip(_)
lstrip(s) == IF s # <<>> /\ Head(s) = " " THEN lstrip(Tail(s)) ELSE s

RECURSIVE rstrip(_)
rstrip(s) ==
    IF s # <<>> /\ s[Len(s)] = " " THEN rstrip(SubSeq(s, 1, Len(s) - 1)) ELSE s

strip(s) == rstrip(lstrip(s))

RECURSIVE lower_replace(_)
lower_replace(s) ==
    IF s = <<>> THEN <<>>
    ELSE << IF lower(Head(s)) = " " THEN "_" ELSE lower(Head(s)) >>
            \o lower_replace(Tail(s))

format_name(name) == lower_replace(strip(name))

-----------------------------------------------------------------------------
(* Time utilities *)

Years == 2024 .. 2026

IsLeap(y) == y % 4 = 0 /\ (y % 100 # 0 \/ y % 400 = 0)

DaysInMonth(y, m) ==
    IF m = 2 THEN (IF IsLeap(y) THEN 29 ELSE 28)
    ELSE IF m \in {4, 6, 9, 11} THEN 30 ELSE 31

RECURSIVE DaysBeforeMonth(_, _)
DaysBeforeMonth(y, m) ==
    IF m = 1 THEN 0 ELSE DaysBeforeMonth(y, m - 1) + DaysInMonth(y, m - 1)

RECURSIVE DaysBeforeYear(_)
DaysBeforeYear(y) ==
    IF y <= 2024 THEN 0
    ELSE DaysBeforeYear(y - 1) + (IF IsLeap(y - 1) THEN 366 ELSE 365)

\* the Brussels wall-clock fields <<y, m, d, h>> as an instant
ToHours(t) ==
    (DaysBeforeYear(t[1]) + DaysBeforeMonth(t[1], t[2]) + t[3] - 1) * 24 + t[4]

\* the instant as Brussels wall-clock fields <<y, m, d, h>>
FromHours(n) ==
    LET day == n \div 24
        y == CHOOSE yy \in Years :
                 DaysBeforeYear(yy) <= day /\ day < DaysBeforeYear(yy + 1)
        doy == day - DaysBeforeYear(y)
        m == CHOOSE mm \in 1 .. 12 :
                 /\ DaysBeforeMonth(y, mm) <= doy
                 /\ doy < DaysBeforeMonth(y, mm) + DaysInMonth(y, mm)
    IN  <<y, m, doy - DaysBeforeMonth(y, m) + 1, n % 24>>

\* dateutil's resolution of "yyyy-a-b" under parserinfo(dayfirst=True): the
\* year is known by its four digits, and the third member is taken as the
\* month whenever it can be one
resolve_ymd(t) ==
    IF t[3] <= 12 THEN <<t[1], t[3], t[2]>> ELSE <<t[1], t[2], t[3]>>

ParserError(time) == time = Unparsable

\* dateutil.parser.parse(time, PARSERINFO): a naive datetime <<y, m, d, h>>
dateutil_parse(time) ==
    LET ymd == resolve_ymd(time)
    IN  <<ymd[1], ymd[2], ymd[3], IF Len(time) = 4 THEN time[4] ELSE 0>>

\* naive.astimezone(pytz.timezone(TIMEZONE)): the naive fields are read in the
\* process's local zone and moved to Brussels
astimezone(naive) == ToHours(naive) + tzshift

strftime(dt, format) ==
    IF format = "DATE_FMT" THEN SubSeq(FromHours(dt), 1, 3) ELSE FromHours(dt)

datetime_from_string(time) == astimezone(dateutil_parse(time))

datetime_from_string_format(time, format) ==
    strftime(datetime_from_string(time), format)

\* Python's "<" on two canonical strings
RECURSIVE StrLess(_, _)
StrLess(a, b) ==
    IF a = <<>> THEN b # <<>>
    ELSE IF b = <<>> THEN FALSE
    ELSE IF Head(a) # Head(b) THEN Head(a) < Head(b)
    ELSE StrLess(Tail(a), Tail(b))

-----------------------------------------------------------------------------
(* The document store *)

\* TinyDB's (Query().field == value) on a document: false when the document
\* does not have the field
QueryEq(doc, field, value) == field \in DOMAIN doc /\ doc[field] = value

\* table.remove(cond) / table.remove(doc_ids=...): the table without the ids
Without(table, ids) == [i \in (DOMAIN table) \ ids |-> table[i]]

\* table.insert(document) under the next doc_id
Inserted(table, id, doc) ==
    [i \in (DOMAIN table) \cup {id} |-> IF i = id THEN doc ELSE table[i]]

\* the ids of a set in table order (ascending doc_id)
RECURSIVE InOrder(_)
InOrder(ids) ==
    IF ids = {} THEN <<>>
    ELSE LET lo == CHOOSE i \in ids : \A j \in ids : i <= j
         IN  <<lo>> \o InOrder(ids \ {lo})

SeqToSet(s) == { s[i] : i \in 1 .. Len(s) }

-----------------------------------------------------------------------------
(* Person *)

Person_from_name(name) ==
    { p \in DOMAIN people : QueryEq(people[p], "name", format_name(name)) }

Person_from_id(id) ==
    { p \in DOMAIN people : QueryEq(people[p], "id", id) }

\* new_person without the check of the name
new_person_error_no_name_check(name, id) ==
    IF Person_from_id(id) # {} THEN "DuplicateExternalId" ELSE "ok"

\* the error new_person raises, "ok" when it raises none
new_person_error(name, id) ==
    IF Person_from_name(format_name(name)) # {} THEN "DuplicateName"
    ELSE IF Person_from_id(id) # {} THEN "DuplicateExternalId"
    ELSE "ok"

new_person(name, pretty_name, id) ==
    /\ IF new_person_error(name, id) # "ok"
       THEN UNCHANGED <<people, nextPerson>>
       ELSE /\ nextPerson <= MaxPeople
            /\ people' = Inserted(people, nextPerson,
                    [name |-> format_name(name), pretty_name |-> pretty_name,
                     id |-> id])
            /\ nextPerson' = nextPerson + 1
    /\ UNCHANGED <<tasks, reminders, nextTask, nextReminder, tzshift, shown, sent>>

-----------------------------------------------------------------------------
(* Task *)

\* Task.__init__: the deadline is None when the document has no such key
Task_deadline(doc) == IF "deadline" \in DOMAIN doc THEN doc.deadline ELSE <<>>

\* the reminders table after Task.remove_task's Reminder.table.remove
remove_task_reminders(rems, task_id) ==
    Without(rems, { r \in DOMAIN rems : QueryEq(rems[r], "task", task_id) })

remove_task(task_id) ==
    /\ IF task_id \in DOMAIN tasks
       THEN /\ tasks' = Without(tasks, {task_id})
            /\ reminders' = remove_task_reminders(reminders, task_id)
       ELSE UNCHANGED <<tasks, reminders>>
    /\ UNCHANGED <<people, nextPerson, nextTask, nextReminder, tzshift, shown, sent>>

\* the reminders table after the body of remove_person's loop has run for
\* each of the tasks in `todo`, in order
RECURSIVE remove_person_loop(_, _, _)
remove_person_loop(rems, name, todo) ==
    IF todo = <<>> THEN rems
    ELSE remove_person_loop(
             remove_task_reminders(
                 Without(rems, { r \in DOMAIN rems : QueryEq(rems[r], "name", name) }),
                 Head(todo)),
             name, Tail(todo))

remove_person(name) ==
    LET n == format_name(name)
        owned == { t \in DOMAIN tasks : QueryEq(tasks[t], "name", n) }
    IN  /\ people' = Without(people, Person_from_name(n))
        /\ tasks' = Without(tasks, owned)
        /\ reminders' = remove_person_loop(reminders, n, InOrder(owned))
        /\ UNCHANGED <<nextPerson, nextTask, nextReminder,
                       tzshift, shown, sent>>

\* add_task without the check of the content
add_task_error_no_content_check(content, deadline) ==
    IF deadline # <<>> /\ ParserError(deadline) THEN "DateParseError" ELSE "ok"

\* the error add_task raises, "ok" when it raises none
add_task_error(content, deadline) ==
    IF content = "" THEN "EmptyContent"
    ELSE IF deadline # <<>> /\ ParserError(deadline) THEN "DateParseError"
    ELSE "ok"

\* the document add_task inserts
add_task_document(self, content, deadline) ==
    IF deadline # <<>>
    THEN [name |-> people[self].name, content |-> content,
          deadline |-> datetime_from_string_format(deadline, "DATE_FMT")]
    ELSE [name |-> people[self].name, content |-> content]

add_task(self, content, deadline) ==
    /\ self \in DOMAIN people
    /\ IF add_task_error(content, deadline) # "ok"
       THEN UNCHANGED <<tasks, nextTask>>
       ELSE /\ nextTask <= MaxTasks
            /\ tasks' = Inserted(tasks, nextTask,
                                 add_task_document(self, content, deadline))
            /\ nextTask' = nextTask + 1
    /\ UNCHANGED <<people, reminders, nextPerson, nextReminder, tzshift, shown, sent>>

-----------------------------------------------------------------------------
(* Reminder *)

recurring_options == { "daily", "weekly", "monthly", "yearly" }

\* str.lower() on the recurring texts
lower_recurring(recurring) == IF recurring = "Monthly" THEN "monthly" ELSE recurring

\* Reminder.__init__: the object built from a document
Reminder_object(id, doc) ==
    [doc_id |-> id, time |-> doc.time, names |-> doc.names,
     recurring |-> doc.recurring, content |-> doc.content,
     task_id |-> IF "task_id" \in DOMAIN doc THEN doc.task_id ELSE 0]

RECURSIVE format_names(_)
format_names(names) ==
    IF names = <<>> THEN <<>>
    ELSE IF Head(names) # <<>>
         THEN <<format_name(Head(names))>> \o format_names(Tail(names))
         ELSE format_names(Tail(names))

\* the values new_reminder works with after the inference from the task
inferred(time, names, content, task_id) ==
    LET names1 == format_names(names)
    IN  IF task_id # 0 /\ task_id \in DOMAIN tasks
        THEN LET task == tasks[task_id]
             IN  [time |-> IF time = <<>> /\ Task_deadline(task) # <<>>
                           THEN Task_deadline(task) \o <<10>> ELSE time,
                  names |-> IF task.name \in SeqToSet(names1)
                            THEN names1 ELSE <<task.name>> \o names1,
                  content |-> IF content = "" THEN task.content ELSE content]
        ELSE [time |-> time, names |-> names1, content |-> content]

\* new_reminder without the final check of time, names and content
new_reminder_error_no_final_check(time, names, recurring, content, task_id) ==
    LET inf == inferred(time, names, content, task_id)
    IN  IF task_id # 0 /\ task_id \notin DOMAIN tasks THEN "TaskNotFound"
        ELSE IF inf.time # <<>> /\ ParserError(inf.time) THEN "DateParseError"
        ELSE IF \E i \in 1 .. Len(inf.names) :
                    inf.names[i] # <<>> /\ Person_from_name(inf.names[i]) = {}
             THEN "UnknownPerson"
        ELSE IF recurring # "" /\ lower_recurring(recurring) \notin recurring_options
             THEN "InvalidRecurrence"
        ELSE "ok"

\* the error new_reminder raises, "ok" when it raises none
new_reminder_error(time, names, recurring, content, task_id) ==
    LET inf == inferred(time, names, content, task_id)
    IN  IF task_id # 0 /\ task_id \notin DOMAIN tasks THEN "TaskNotFound"
        ELSE IF inf.time # <<>> /\ ParserError(inf.time) THEN "DateParseError"
        ELSE IF \E i \in 1 .. Len(inf.names) :
                    inf.names[i] # <<>> /\ Person_from_name(inf.names[i]) = {}
             THEN "UnknownPerson"
        ELSE IF recurring # "" /\ lower_recurring(recurring) \notin recurring_options
             THEN "InvalidRecurrence"
        ELSE IF ~ (inf.time # <<>> /\ inf.names # <<>> /\ inf.content # "")
             THEN "IncompleteReminder"
        ELSE "ok"

\* the document new_reminder inserts
new_reminder_document(time, names, recurring, content, task_id) ==
    LET inf == inferred(time, names, content, task_id)
        doc == [time |-> datetime_from_string_format(inf.time, "TIME_FMT"),
                names |-> inf.names,
                content |-> inf.content,
                recurring |-> IF recurring # "" THEN lower_recurring(recurring)
                              ELSE "off"]
    IN  IF task_id # 0
        THEN [k \in DOMAIN doc \cup {"task_id"} |->
                 IF k = "task_id" THEN task_id ELSE doc[k]]
        ELSE doc

new_reminder(time, names, recurring, content, task_id) ==
    /\ IF new_reminder_error(time, names, recurring, content, task_id) # "ok"
       THEN UNCHANGED <<reminders, nextReminder>>
       ELSE /\ nextReminder <= MaxReminders
            /\ reminders' = Inserted(reminders, nextReminder,
                  new_reminder_document(time, names, recurring, content, task_id))
            /\ nextReminder' = nextReminder + 1
    /\ UNCHANGED <<people, tasks, nextPerson, nextTask, tzshift, shown, sent>>

remove_reminder(reminder_id) ==
    /\ IF reminder_id \in DOMAIN reminders
       THEN reminders' = Without(reminders, {reminder_id})
       ELSE UNCHANGED reminders
    /\ UNCHANGED <<people, tasks, nextPerson, nextTask, nextReminder,
                   tzshift, shown, sent>>

-----------------------------------------------------------------------------
(* The scheduler *)

\* next_time < dt_now: dt_now is the instant n.t plus a fraction of the
\* model's time unit (n.frac = 1) or exactly n.t (n.frac = 0)
Before(next_time, n) ==
    next_time < ToHours(n.t) \/ (next_time = ToHours(n.t) /\ n.frac = 1)

\* the timedelta, in days, that update_reminders adds for a recurrence
timedelta_days(recurring) ==
    IF recurring = "daily" THEN 1
    ELSE IF recurring = "weekly" THEN 7
    ELSE IF recurring = "monthly" THEN 1
    ELSE 1

\* while next_time < dt_now: next_time += timedelta(days=...)
RECURSIVE catch_up(_, _, _)
catch_up(next_time, n, days) ==
    IF Before(next_time, n) THEN catch_up(next_time + 24 * days, n, days)
    ELSE next_time

\* is_due with "<=" in the place of "<"
is_due_or_now(doc, n) == doc.time = n.t \/ StrLess(doc.time, n.t)

\* reminder.time < now, with now = dt_now.strftime(TIME_FMT)
is_due(doc, n) == StrLess(doc.time, n.t)

\* the time set_new_time stores for a due recurring reminder
set_new_time(time) == datetime_from_string_format(time, "TIME_FMT")

new_time(doc, n) ==
    set_new_time(strftime(
        catch_up(datetime_from_string(doc.time), n, timedelta_days(doc.recurring)),
        "TIME_FMT"))

\* the due reminders whose stored time dateutil rejects: datetime_from_string
\* raises on the first of them, in table order, and the exception leaves
\* Reminder.update_reminders
raising(rems, n) ==
    { r \in DOMAIN rems : is_due(rems[r], n) /\ ParserError(rems[r].time) }

\* the reminders the loop of Reminder.update_reminders has dealt with: all
\* of them, or the ones before the first that raises
reached(rems, n) ==
    { r \in DOMAIN rems : \A bad \in raising(rems, n) : r < bad }

\* update_reminders without the removal of the due one-off reminders
updated_reminders_no_removal(rems, n) ==
    [r \in DOMAIN rems |->
        IF is_due(rems[r], n) /\ rems[r].recurring \in recurring_options
        THEN [rems[r] EXCEPT !.time = new_time(rems[r], n)]
        ELSE rems[r]]

\* update_reminders with every due reminder removed, recurring or not
updated_reminders_all_removed(rems, n) ==
    Without(rems, { r \in DOMAIN rems : is_due(rems[r], n) })

\* the reminders table after update_reminders at the instant n
updated_reminders(rems, n) ==
    LET done == { r \in reached(rems, n) : is_due(rems[r], n) }
        kept == { r \in DOMAIN rems :
                    ~ (r \in done /\ rems[r].recurring \notin recurring_options) }
    IN  [r \in kept |->
            IF r \in done
            THEN [rems[r] EXCEPT !.time = new_time(rems[r], n)]
            ELSE rems[r]]

\* reminders_to_show: the objects of the due reminders, in table order; the
\* object of a recurring one is the one set_new_time has assigned to
RECURSIVE reminders_to_show(_, _, _)
reminders_to_show(rems, n, ids) ==
    IF ids = <<>> THEN <<>>
    ELSE LET r == Head(ids)
             obj == Reminder_object(r, rems[r])
         IN  (IF ~ is_due(rems[r], n) THEN <<>>
              ELSE IF rems[r].recurring \in recurring_options
                   THEN << [obj EXCEPT !.time = new_time(rems[r], n)] >>
                   ELSE << obj >>)
             \o reminders_to_show(rems, n, Tail(ids))

\* the <<doc_id, name>> pairs of the delivery loop, in its order
RECURSIVE messages(_)
messages(show) ==
    IF show = <<>> THEN <<>>
    ELSE [i \in 1 .. Len(Head(show).names) |->
             <<Head(show).doc_id, Head(show).names[i]>>]
         \o messages(Tail(show))

\* the messages sent: person.id raises AttributeError on the first name for
\* which Person.from_name returns None, and the exception leaves the loop
RECURSIVE delivered(_)
delivered(msgs) ==
    IF msgs = <<>> \/ Person_from_name(Head(msgs)[2]) = {} THEN <<>>
    ELSE <<Head(msgs)>> \o delivered(Tail(msgs))

\* the body of the bot's loop: Reminder.update_reminders, then the delivery
\* of what it returned (nothing when it raised)
update_reminders(instant, frac) ==
    LET n == [t |-> instant, frac |-> frac]
        show == IF raising(reminders, n) # {} THEN <<>>
                ELSE reminders_to_show(reminders, n, InOrder(DOMAIN reminders))
    IN  /\ reminders' = updated_reminders(reminders, n)
        /\ shown' = show
        /\ sent' = delivered(messages(show))
        /\ UNCHANGED <<people, tasks, nextPerson, nextTask, nextReminder, tzshift>>

-----------------------------------------------------------------------------
(* The specification *)

Init ==
    /\ people = <<>>
    /\ tasks = <<>>
    /\ reminders = <<>>
    /\ nextPerson = 1
    /\ nextTask = 1
    /\ nextReminder = 1
    /\ tzshift \in TzShifts
    /\ shown = <<>>
    /\ sent = <<>>

Next ==
    \/ \E name \in RawPersonNames, pretty \in PrettyNames, id \in ExternalIds :
           new_person(name, pretty, id)
    \/ \E name \in RawPersonNames : remove_person(name)
    \/ \E self \in 1 .. MaxPeople, content \in TaskContents,
          deadline \in DeadlineTexts :
           add_task(self, content, deadline)
    \/ \E task_id \in 1 .. MaxTasks : remove_task(task_id)
    \/ \E time \in TimeTexts, names \in NameLists, recurring \in RecurringTexts,
          content \in ReminderContents, task_id \in 0 .. MaxTasks :
           new_reminder(time, names, recurring, content, task_id)
    \/ \E reminder_id \in 1 .. MaxReminders : remove_reminder(reminder_id)
    \/ \E instant \in Instants, frac \in Fractions :
           update_reminders(instant, frac)

Spec == Init /\ [][Next]_vars

-----------------------------------------------------------------------------
(* The to-do lists alone: persons and their tasks, with contents of white  *)
(* space among the inputs of add_task.                                     *)

NextTasks ==
    \/ \E name \in RawPersonNames, pretty \in PrettyNames, id \in ExternalIds :
           new_person(name, pretty, id)
    \/ \E self \in 1 .. MaxPeople,
          content \in TaskContents \cup BlankTaskContents,
          deadline \in DeadlineTexts :
           add_task(self, content, deadline)
    \/ \E task_id \in 1 .. MaxTasks : remove_task(task_id)

SpecTasks == Init /\ [][NextTasks]_vars

-----------------------------------------------------------------------------
(* A process started on a document file that exists already.  The file     *)
(* /data/db.yml is on a persistent volume and TinyDB reads it as it is, so *)
(* the reminders table may hold a document whose time is not one that      *)
(* datetime_from_string has written.                                       *)

StoredTimes == { Unparsable, <<2024, 3, 15, 10>>, <<2024, 3, 20, 10>> }

StoredReminders ==
    [time : StoredTimes, names : { << <<"b">> >> }, content : { "call" },
     recurring : { "off", "daily" }]

InitStored ==
    /\ people = <<[name |-> <<"b">>, pretty_name |-> "P", id |-> "1"]>>
    /\ tasks = <<>>
    /\ reminders \in [1 .. MaxReminders + 1 -> StoredReminders]
    /\ nextPerson = 2
    /\ nextTask = 1
    /\ nextReminder = MaxReminders + 2
    /\ tzshift \in TzShifts
    /\ shown = <<>>
    /\ sent = <<>>

NextStored ==
    \/ \E reminder_id \in 1 .. MaxReminders + 1 : remove_reminder(reminder_id)
    \/ \E instant \in Instants, frac \in Fractions :
           update_reminders(instant, frac)

SpecStored == InitStored /\ [][NextStored]_vars

-----------------------------------------------------------------------------
(* Vocabulary of the properties *)

\* the linked task of a reminder document, 0 when it has none
LinkedTask(doc) == IF "task_id" \in DOMAIN doc THEN doc.task_id ELSE 0

PersonNamed(name) == \E p \in DOMAIN people : people[p].name = name

ShownIds(s) == { s[i].doc_id : i \in 1 .. Len(s) }

\* a poll step at the instant `instant`
Polls(instant) == \E frac \in Fractions : update_reminders(instant, frac)

\* the fields <<y, m, d, h>> moved forward by k periods of a recurrence
PlusPeriods(t, recurring, k) ==
    IF recurring = "daily" THEN FromHours(ToHours(t) + 24 * k)
    ELSE IF recurring = "weekly" THEN FromHours(ToHours(t) + 168 * k)
    ELSE IF recurring = "monthly"
         THEN <<t[1] + ((t[2] - 1 + k) \div 12), ((t[2] - 1 + k) % 12) + 1, t[3], t[4]>>
    ELSE <<t[1] + k, t[2], t[3], t[4]>>

\* the fire time t is strictly after the instant of a poll
After(t, instant) == ToHours(t) > ToHours(instant)

\* a content that is empty or white space only
IsBlank(content) == content = "" \/ content = " "

-----------------------------------------------------------------------------
(* C1: Task.remove_task(id) on an existing task leaves no task with that id
   and no reminder whose linked task is id. *)
C1_RemoveTaskCascades ==
    [][\A id \in 1 .. MaxTasks :
          (id \in DOMAIN tasks /\ remove_task(id))
          => /\ id \notin DOMAIN tasks'
             /\ \A r \in DOMAIN reminders' : LinkedTask(reminders'[r]) # id]_vars

(* C2: Person.remove_person of an existing person removes every task the
   person owns and every reminder linked to such a task. *)
C2_RemovePersonCascades ==
    [][\A name \in RawPersonNames :
          (PersonNamed(format_name(name)) /\ remove_person(name))
          => \A t \in DOMAIN tasks :
                tasks[t].name = format_name(name)
                => /\ t \notin DOMAIN tasks'
                   /\ \A r \in DOMAIN reminders :
                         LinkedTask(reminders[r]) = t => r \notin DOMAIN reminders']_vars

(* C3: after Person.remove_person(name) no task is owned by name and no
   reminder has name among its recipients. *)
C3_RemovePersonComplete ==
    [][\A name \in RawPersonNames :
          remove_person(name)
          => /\ \A t \in DOMAIN tasks' : tasks'[t].name # format_name(name)
             /\ \A r \in DOMAIN reminders' :
                   format_name(name) \notin SeqToSet(reminders'[r].names)]_vars

(* C4: no two persons share a name and no two share an external id; a
   registration under a name that exists fails with DuplicateName, and one
   under a new name with an external id that exists fails with
   DuplicateExternalId. *)
C4_PersonsUnique ==
    /\ \A p, q \in DOMAIN people :
          p # q => /\ people[p].name # people[q].name
                   /\ people[p].id # people[q].id
    /\ \A name \in RawPersonNames, id \in ExternalIds :
          /\ PersonNamed(format_name(name))
                => new_person_error(name, id) = "DuplicateName"
          /\ (~ PersonNamed(format_name(name))
              /\ \E p \in DOMAIN people : people[p].id = id)
                => new_person_error(name, id) = "DuplicateExternalId"

\* two persons are registered, and a registration of either kind would fail
C4_Witness ==
    /\ Cardinality(DOMAIN people) = 2
    /\ \E name \in RawPersonNames, id \in ExternalIds :
          new_person_error(name, id) = "DuplicateName"

(* C5: a poll at any instant returns every one-off reminder whose fire time
   is in the past, once, and deletes it, and the poll that follows at the
   same instant does not return it; a one-off reminder that the latest poll
   has returned is not in the store afterwards. *)
C5_OneOffReturnedOnce ==
    /\ \A instant \in Instants, frac \in Fractions :
          LET n == [t |-> instant, frac |-> frac]
              first == reminders_to_show(reminders, n, InOrder(DOMAIN reminders))
              after == updated_reminders(reminders, n)
              second == reminders_to_show(after, n, InOrder(DOMAIN after))
          IN  \A r \in DOMAIN reminders :
                 (reminders[r].recurring = "off"
                  /\ ToHours(reminders[r].time) < ToHours(instant))
                 => /\ Cardinality({ i \in 1 .. Len(first) : first[i].doc_id = r }) = 1
                    /\ r \notin DOMAIN after
                    /\ r \notin ShownIds(second)
    /\ \A i \in 1 .. Len(shown) :
          shown[i].recurring = "off" => shown[i].doc_id \notin DOMAIN reminders

\* the latest poll has returned a one-off reminder, which is gone
C5_Witness ==
    \E i \in 1 .. Len(shown) :
        /\ shown[i].recurring = "off"
        /\ shown[i].doc_id \notin DOMAIN reminders

(* C6: after a poll that finds a recurring reminder due, the stored fire
   time is the old one plus k >= 1 periods, strictly after now, and the
   smallest such. *)
C6_CatchUpSmallestAfterNow ==
    [][\A instant \in Instants :
          Polls(instant)
          => \A r \in DOMAIN reminders :
                (reminders[r].recurring \in recurring_options
                 /\ ToHours(reminders[r].time) < ToHours(instant))
                => /\ r \in DOMAIN reminders'
                   /\ \E k \in 1 .. 40 :
                         /\ reminders'[r].time
                              = PlusPeriods(reminders[r].time, reminders[r].recurring, k)
                         /\ After(reminders'[r].time, instant)
                         /\ k > 1 => ~ After(PlusPeriods(reminders[r].time,
                                                 reminders[r].recurring, k - 1), instant)]_vars

(* C7: a poll moves a due recurring reminder by a whole number of its
   periods: days for daily, weeks for weekly, months for monthly, years for
   yearly. *)
C7_AdvanceByWholePeriods ==
    [][\A instant \in Instants :
          Polls(instant)
          => \A r \in DOMAIN reminders :
                (reminders[r].recurring \in recurring_options
                 /\ ToHours(reminders[r].time) < ToHours(instant))
                => /\ r \in DOMAIN reminders'
                   /\ \E k \in 0 .. 40 :
                         reminders'[r].time
                           = PlusPeriods(reminders[r].time, reminders[r].recurring, k)]_vars

(* Inputs of new_reminder, described without the model's operators *)

\* the task an input links to (only used when it exists)
HasTask(task_id) == task_id # 0 /\ task_id \in DOMAIN tasks

\* after the inference from the task, the time, the names or the content
\* is missing
Incomplete(time, names, content, task_id) ==
    \/ /\ time = <<>>
       /\ ~ (HasTask(task_id) /\ "deadline" \in DOMAIN tasks[task_id])
    \/ /\ \A i \in 1 .. Len(names) : names[i] = <<>>
       /\ ~ HasTask(task_id)
    \/ /\ content = ""
       /\ ~ HasTask(task_id)

\* one of the checks new_reminder makes before the last one fails
EarlierError(time, names, recurring, task_id) ==
    \/ task_id # 0 /\ task_id \notin DOMAIN tasks
    \/ time = Unparsable
    \/ \E i \in 1 .. Len(names) :
          format_name(names[i]) # <<>> /\ ~ PersonNamed(format_name(names[i]))
    \/ /\ HasTask(task_id)
       /\ ~ PersonNamed(tasks[task_id].name)
    \/ recurring \notin { "", "daily", "weekly", "monthly", "yearly",
                           "Daily", "Weekly", "Monthly", "Yearly" }

\* every stored reminder has a time, a recipient and a content
RemindersComplete ==
    \A r \in DOMAIN reminders :
        /\ reminders[r].time # <<>>
        /\ reminders[r].names # <<>>
        /\ reminders[r].content # ""

(* C8 as stated: every stored reminder has a time, a recipient and a
   content, and new_reminder fails with IncompleteReminder whenever one of
   them is missing after the inference from an existing linked task. *)
C8_IncompleteAlwaysIncompleteReminder ==
    /\ RemindersComplete
    /\ \A time \in TimeTexts, names \in NameLists, recurring \in RecurringTexts,
          content \in ReminderContents, task_id \in 0 .. MaxTasks :
          (Incomplete(time, names, content, task_id)
           /\ (task_id = 0 \/ HasTask(task_id)))
          => new_reminder_error(time, names, recurring, content, task_id)
               = "IncompleteReminder"

(* C8 as amended: every stored reminder has a time, a recipient and a
   content, and new_reminder fails whenever one of them is missing after the
   inference: with IncompleteReminder when none of its earlier checks fails,
   with the error of the first failing earlier check otherwise. *)
C8_IncompleteFails ==
    /\ RemindersComplete
    /\ \A time \in TimeTexts, names \in NameLists, recurring \in RecurringTexts,
          content \in ReminderContents, task_id \in 0 .. MaxTasks :
          Incomplete(time, names, content, task_id)
          => LET err == new_reminder_error(time, names, recurring, content, task_id)
             IN  IF EarlierError(time, names, recurring, task_id)
                 THEN err \in { "TaskNotFound", "DateParseError",
                                "UnknownPerson", "InvalidRecurrence" }
                 ELSE err = "IncompleteReminder"

\* a reminder is stored, and a call that names a registered person but gives
\* no time and no content would fail with IncompleteReminder
C8_Witness ==
    /\ DOMAIN reminders # {}
    /\ \E names \in NameLists :
          /\ \E i \in 1 .. Len(names) : PersonNamed(format_name(names[i]))
          /\ Incomplete(<<>>, names, "", 0)
          /\ new_reminder_error(<<>>, names, "", "", 0) = "IncompleteReminder"

(* C9: every recipient of a reminder that new_reminder stores is a
   non-empty name of a person registered at that time. *)
C9_RecipientsAreRegistered ==
    [][\A time \in TimeTexts, names \in NameLists, recurring \in RecurringTexts,
          content \in ReminderContents, task_id \in 0 .. MaxTasks :
          (new_reminder(time, names, recurring, content, task_id)
           /\ nextReminder' # nextReminder)
          => \A i \in 1 .. Len(reminders'[nextReminder].names) :
                /\ reminders'[nextReminder].names[i] # <<>>
                /\ PersonNamed(reminders'[nextReminder].names[i])]_vars

(* C10: a reminder created for an existing task: without an explicit time
   and with a task deadline D its fire time is "D 10:00:00"; without an
   explicit content its content is the task's; the owner is a recipient,
   put first when the names given do not hold it and not added a second time
   when they do; an explicit content is kept. *)
C10_LinkedTaskInference ==
    [][\A time \in TimeTexts, names \in NameLists, recurring \in RecurringTexts,
          content \in ReminderContents, task_id \in 1 .. MaxTasks :
          /\ task_id \notin DOMAIN tasks
                => new_reminder_error(time, names, recurring, content, task_id)
                     = "TaskNotFound"
          /\ (new_reminder(time, names, recurring, content, task_id)
              /\ nextReminder' # nextReminder)
             => LET new == reminders'[nextReminder]
                    task == tasks[task_id]
                    given == { format_name(names[i]) : i \in 1 .. Len(names) }
                    supplied == { i \in 1 .. Len(names) : names[i] # <<>> }
                IN  /\ (time = <<>> /\ "deadline" \in DOMAIN task)
                          => new.time = task.deadline \o <<10>>
                    /\ time # <<>>
                          => new.time = datetime_from_string_format(time, "TIME_FMT")
                    /\ new.content = IF content = "" THEN task.content ELSE content
                    /\ IF task.name \in given
                       THEN Cardinality({ i \in 1 .. Len(new.names) :
                                            new.names[i] = task.name }) = 1
                       ELSE /\ new.names[1] = task.name
                            /\ Len(new.names) = 1 + Cardinality(supplied)]_vars

(* C11: add_task fails with EmptyContent, and inserts nothing, whenever the
   content is empty or white space only, so that every stored task has a
   content that is not blank. *)
C11_BlankContentRejected ==
    [][/\ \A self \in 1 .. MaxPeople, content \in BlankTaskContents,
             deadline \in DeadlineTexts :
             add_task(self, content, deadline)
             => /\ add_task_error(content, deadline) = "EmptyContent"
                /\ tasks' = tasks
       /\ \A t \in DOMAIN tasks' : ~ IsBlank(tasks'[t].content)]_vars

(* C12: a poll in which a due reminder has a stored time that cannot be
   parsed still deals with every other due reminder: each of them is
   returned by that poll, and is deleted or rescheduled. *)
C12_UnparsableSkipped ==
    [][\A instant \in Instants :
          Polls(instant)
          => \A r \in DOMAIN reminders :
                (reminders[r].time # Unparsable
                 /\ ToHours(reminders[r].time) < ToHours(instant))
                => /\ r \in ShownIds(shown')
                   /\ \/ r \notin DOMAIN reminders'
                      \/ reminders'[r].time # reminders[r].time]_vars

(* C13: in the delivery that follows a poll, every recipient of a returned
   reminder whose name is the name of a registered person is sent the
   reminder, whether or not another recipient of that poll fails to
   resolve, and the delivery leaves the people and tasks tables alone. *)
C13_DeliveryIsolated ==
    [][\A instant \in Instants :
          Polls(instant)
          => /\ people' = people /\ tasks' = tasks
             /\ \A i \in 1 .. Len(shown') :
                   \A j \in 1 .. Len(shown'[i].names) :
                      PersonNamed(shown'[i].names[j])
                      => <<shown'[i].doc_id, shown'[i].names[j]>> \in SeqToSet(sent')]_vars

(* C14: the entry a poll returns for a due recurring reminder carries the
   fire time the reminder had before the poll, not the one the poll has
   stored. *)
C14_ReturnedSnapshotPreAdvance ==
    [][\A instant \in Instants :
          Polls(instant)
          => \A i \in 1 .. Len(shown') :
                shown'[i].recurring \in recurring_options
                => shown'[i].time = reminders[shown'[i].doc_id].time]_vars

\* the ids a poll at the instant n returns
Returned(n) == ShownIds(reminders_to_show(reminders, n, InOrder(DOMAIN reminders)))

(* C15 as stated: a poll returns exactly the stored reminders whose fire
   time is at or before now. *)
C15_DueAtOrBefore ==
    \A instant \in Instants, frac \in Fractions :
        Returned([t |-> instant, frac |-> frac])
          = { r \in DOMAIN reminders :
                ToHours(reminders[r].time) <= ToHours(instant) }

(* C15 as amended: a poll returns exactly the stored reminders whose fire
   time is strictly before now cut to the unit of the canonical text; a
   reminder whose fire time is that of now is not returned. *)
C15_DueStrictlyBefore ==
    \A instant \in Instants, frac \in Fractions :
        Returned([t |-> instant, frac |-> frac])
          = { r \in DOMAIN reminders :
                ToHours(reminders[r].time) < ToHours(instant) }

\* a stored reminder has the fire time of a poll instant, and a poll at that
\* instant does not return it
C15_Witness ==
    \E r \in DOMAIN reminders, instant \in Instants :
        /\ reminders[r].time = instant
        /\ r \notin Returned([t |-> instant, frac |-> 1])

(* C16: when a poll returns, every one-off reminder it returns is out of the
   store, every recurring reminder it returns has a stored fire time that is
   not before now, and a poll repeated at the same instant returns nothing. *)
C16_MutateThenReport ==
    \A instant \in Instants, frac \in Fractions :
        LET n == [t |-> instant, frac |-> frac]
            after == updated_reminders(reminders, n)
        IN  /\ \A r \in Returned(n) :
                  IF reminders[r].recurring \in recurring_options
                  THEN /\ r \in DOMAIN after
                       /\ ToHours(after[r].time) >= ToHours(instant)
                  ELSE r \notin DOMAIN after
            /\ reminders_to_show(after, n, InOrder(DOMAIN after)) = <<>>

(* C17: a canonical text is stored as it is: a task created with a deadline
   "yyyy-mm-dd" has that deadline, a reminder created with a time
   "yyyy-mm-dd hh:00:00" has that time, and the reschedule step stores a
   canonical time unchanged, whatever the time zone of the process. *)
C17_CanonicalRoundTrip ==
    [][/\ \A self \in 1 .. MaxPeople, content \in TaskContents,
             deadline \in DeadlineTexts :
             (Len(deadline) = 3 /\ add_task(self, content, deadline)
              /\ nextTask' # nextTask)
             => tasks'[nextTask].deadline = deadline
       /\ \A time \in TimeTexts, names \in NameLists, recurring \in RecurringTexts,
             content \in ReminderContents, task_id \in 0 .. MaxTasks :
             (Len(time) = 4 /\ new_reminder(time, names, recurring, content, task_id)
              /\ nextReminder' # nextReminder)
             => reminders'[nextReminder].time = time
       /\ \A r \in DOMAIN reminders :
             set_new_time(reminders[r].time) = reminders[r].time]_vars

\* the three tables
Tables == <<people, tasks, reminders>>

(* C18: a step that changes one of the three tables is not a step of a
   call that fails: of new_person with a name or an id that exists, of
   add_task with no content or an unparsable deadline, of new_reminder with
   a task that does not exist, an unparsable time, an unknown person, a bad
   recurrence or a missing time, recipient or content, or of remove_task or
   remove_reminder with an id that does not exist. *)
C18_FailedCallsChangeNothing ==
    [][Tables' # Tables
       => /\ \A name \in RawPersonNames, pretty \in PrettyNames, id \in ExternalIds :
                ~ /\ \/ PersonNamed(format_name(name))
                      \/ \E p \in DOMAIN people : people[p].id = id
                   /\ new_person(name, pretty, id)
          /\ \A self \in 1 .. MaxPeople, content \in TaskContents,
                deadline \in DeadlineTexts :
                ~ /\ (content = "" \/ deadline = Unparsable)
                   /\ add_task(self, content, deadline)
          /\ \A time \in TimeTexts, names \in NameLists,
                recurring \in RecurringTexts, content \in ReminderContents,
                task_id \in 0 .. MaxTasks :
                \* new_reminder writes to the reminders table only
                ~ /\ people' = people /\ tasks' = tasks
                   /\ \/ EarlierError(time, names, recurring, task_id)
                      \/ Incomplete(time, names, content, task_id)
                   /\ new_reminder(time, names, recurring, content, task_id)
          /\ \A task_id \in 1 .. MaxTasks :
                ~ (task_id \notin DOMAIN tasks /\ remove_task(task_id))
          /\ \A reminder_id \in 1 .. MaxReminders :
                ~ (reminder_id \notin DOMAIN reminders
                   /\ remove_reminder(reminder_id))]_vars

\* a person, a task and a reminder are stored, so that calls of each kind
\* fail: a registration under the name that exists, and a reminder for a
\* task that does not exist or with a recurrence that is not one
C18_Witness ==
    /\ DOMAIN people # {} /\ DOMAIN tasks # {} /\ DOMAIN reminders # {}
    /\ \E name \in RawPersonNames : PersonNamed(format_name(name))
    /\ \E time \in TimeTexts, names \in NameLists, recurring \in RecurringTexts :
          EarlierError(time, names, recurring, 0)

(* C19: a poll leaves the people and tasks tables as they are, creates no
   reminder, leaves every reminder whose fire time is not before now as it
   is, and keeps every recurring reminder, of which it changes at most the
   fire time. *)
C19_PollFrame ==
    /\ [](\A instant \in Instants, frac \in Fractions :
             LET after == updated_reminders(reminders, [t |-> instant, frac |-> frac])
             IN  /\ DOMAIN after \subseteq DOMAIN reminders
                 /\ \A r \in DOMAIN reminders :
                       /\ ToHours(reminders[r].time) >= ToHours(instant)
                             => (r \in DOMAIN after /\ after[r] = reminders[r])
                       /\ reminders[r].recurring \in recurring_options
                             => /\ r \in DOMAIN after
                                /\ [after[r] EXCEPT !.time = reminders[r].time]
                                     = reminders[r])
    /\ [][(people' # people \/ tasks' # tasks)
           => \A instant \in Instants : ~ Polls(instant)]_vars

\* the latest poll has returned a recurring reminder, which is in the store
\* with a later fire time
C19_Witness ==
    \E i \in 1 .. Len(shown) :
        /\ shown[i].recurring \in recurring_options
        /\ shown[i].doc_id \in DOMAIN reminders
        /\ ToHours(reminders[shown[i].doc_id].time) >= ToHours(<<2024, 3, 17, 10>>)

====
